---- MODULE Spec2Model ----
(***************************************************************************)
(* SimulationService (src/domain/services/simulation_service.py): the      *)
(* create / update / preview operations of the simulation backend, run as  *)
(* concurrent coroutines over one shared document store and two HTTP       *)
(* providers.  Every await of the code is a step boundary; the code        *)
(* between two awaits is one atomic step.                                  *)
(***************************************************************************)
EXTENDS Integers, Sequences, FiniteSets, TLC

\* ------------------------------------------------------------------ bounds
\* longest script of a create request
MaxLen == 3
\* total number of operations the callers start
MaxOps == 2
\* the clock (milliseconds, the store's datetime resolution) runs 0..MaxTime
MaxTime == 1

\* concurrent request handlers (coroutines of the event loop)
Procs == {"t1", "t2"}
Users == {"u1", "u2"}

\* ------------------------------------------------------------- identifiers
\* A caller's sim_id string: a 24-hex string names exactly one ObjectId, any
\* other text names none.
SimIdStrings == {<<"hex24", 1>>, <<"hex24", 0>>, <<"text", 0>>}

\* bson.ObjectId(sim_id): the id, or InvalidId
ObjectId(s) ==
    IF s[1] = "hex24" THEN [raised |-> FALSE, value |-> s[2]]
    ELSE [raised |-> TRUE,
          exc |-> [type |-> "InvalidId", status_code |-> 0, detail |-> "InvalidId"]]

\* str(result.inserted_id)
OidStr(oid) == <<"hex24", oid>>

\* --------------------------------------------------------------- exceptions
HTTPException(status, detail) ==
    [type |-> "HTTPException", status_code |-> status, detail |-> detail]

Exc(type) == [type |-> type, status_code |-> 0, detail |-> type]

Return(v) == [raised |-> FALSE, value |-> v]
Raise(e) == [raised |-> TRUE, exc |-> e]

\* ---------------------------------------------------------------- documents
NoDoc == <<>>

\* dict.get(f): the value, or None (modelled as absence)
Present(d, f) == f \in DOMAIN d

\* d[f] = v on a dict
SetField(d, f, v) == [g \in DOMAIN d \cup {f} |-> IF g = f THEN v ELSE d[g]]

\* the document replaced by the update instead of merged with it
ApplySet_replace(old, upd) == upd

\* {"$setOnInsert": upd}: a field the document already has keeps its value
ApplySet_oninsert(old, upd) ==
    [g \in DOMAIN old \cup DOMAIN upd |-> IF g \in DOMAIN old THEN old[g] ELSE upd[g]]

\* every write that names no version raises the stored one
ApplySet_autoincrement(old, upd) ==
    [g \in DOMAIN old \cup DOMAIN upd |->
        IF g \in DOMAIN upd THEN upd[g]
        ELSE IF g = "version" THEN old[g] + 1 ELSE old[g]]

\* the store's {"$set": upd} applied to a document
ApplySet(old, upd) ==
    [g \in DOMAIN old \cup DOMAIN upd |-> IF g \in DOMAIN upd THEN upd[g] ELSE old[g]]

\* ----------------------------------------------------------------- requests
Line(role, sentence) == [role |-> role, script_sentence |-> sentence]

\* the script a create request carries
Script == <<Line("agent", "Hello"), Line("customer", "Refund")>>

\* every script of 1..MaxLen lines over two lines, in any order and with
\* repetitions
ScriptLines == {Line("agent", "Hello"), Line("customer", "Refund")}
Scripts == UNION { [1..n -> ScriptLines] : n \in 1..MaxLen }

\* create requests that differ in their script only
ScriptRequests ==
    { [op |-> "create", sim_id |-> <<"text", 0>>, user_id |-> "u1",
       fields |-> [name |-> "n1", division_id |-> "div", department_id |-> "dep",
                   type |-> "audio", tags |-> {"t"}, script |-> sc]] :
      sc \in Scripts }

\* CreateSimulationRequest
CreateRequests ==
    { [op |-> "create", sim_id |-> <<"text", 0>>, user_id |-> u,
       fields |-> [name |-> "n1", division_id |-> "div", department_id |-> "dep",
                   type |-> "audio", tags |-> {"t"}, script |-> Script]] :
      u \in Users }

\* the optional fields of an UpdateSimulationRequest that are supplied; a
\* field that is None is absent from the function's domain
UpdateFieldSets ==
    { <<>>, "version" :> 2, "voice_id" :> "v1", "prompt" :> "p2",
      ("prompt" :> "p2") @@ ("voice_id" :> "v1"),
      ("prompt" :> "p3") @@ ("voice_id" :> "") }

\* what a request on an identifier that names no record carries
ProbeFieldSets == { <<>>, "prompt" :> "p2" }

UpdateRequests ==
    { [op |-> "update", sim_id |-> s, user_id |-> "u1", fields |-> f] :
      s \in {<<"hex24", 1>>}, f \in UpdateFieldSets }
    \cup
    { [op |-> "update", sim_id |-> s, user_id |-> "u1", fields |-> f] :
      s \in SimIdStrings \ {<<"hex24", 1>>}, f \in ProbeFieldSets }

\* previews also name the record the first create_simulation will insert
PreviewRequests ==
    { [op |-> "preview", sim_id |-> s, user_id |-> "u1", fields |-> <<>>] :
      s \in SimIdStrings \cup {<<"hex24", 2>>} }

NoRequest == [op |-> "none", sim_id |-> <<"text", 0>>, user_id |-> "", fields |-> <<>>]

\* ---------------------------------------------------------- provider replies
\* An HTTP exchange as the client sees it: the connection may fail (conn =
\* FALSE), else a status arrives with a body that is JSON holding the
\* documented field ("json"), JSON without it ("nokey") or not JSON at all.
Response(status, body) == [conn |-> TRUE, status |-> status, body |-> body, json |-> <<>>]
ConnError == [conn |-> FALSE, status |-> 0, body |-> "none", json |-> <<>>]

RetellReplies ==
    { Response(201, "json"), Response(201, "nokey"), Response(404, "json"), ConnError }

OpenAIReplies ==
    { Response(200, "json"), Response(200, "nokey"), Response(404, "json"), ConnError }

WebCallReplies ==
    { Response(201, "json"), Response(201, "nokey"), Response(400, "json"),
      Response(404, "notjson"), ConnError }

\* the reply with its parsed body: key -> value when the body holds the field
WithJson(resp, key, value) ==
    [resp EXCEPT !.json = IF resp.body = "json" THEN key :> value ELSE <<>>]

\* ------------------------------------------------------- the HTTP helpers
\* _create_retell_llm, from the reply on: every exception raised inside the
\* try block, the HTTPException for a non-201 status included, is caught by
\* `except Exception` and raised again as a 500.
\* the status check left out: any reply with a JSON body is returned
_create_retell_llm_nocheck(response) ==
    IF ~response.conn \/ response.body = "notjson"
    THEN Raise(HTTPException(500, "Error creating Retell LLM"))
    ELSE Return(response.json)

_create_retell_llm(response) ==
    LET try == IF ~response.conn THEN Raise(Exc("ClientError"))
               ELSE IF response.status # 201
                    THEN Raise(HTTPException(response.status,
                                             "Failed to create Retell LLM"))
               ELSE IF response.body = "notjson" THEN Raise(Exc("ContentTypeError"))
               ELSE Return(response.json)
    IN  IF try.raised
        THEN Raise(HTTPException(500, "Error creating Retell LLM"))
        ELSE try

\* the status check left out: any reply with a JSON body is returned
_create_retell_agent_nocheck(response) ==
    IF ~response.conn \/ response.body = "notjson"
    THEN Raise(HTTPException(500, "Error creating Retell Agent"))
    ELSE Return(response.json)

\* _create_retell_agent, from the reply on
_create_retell_agent(response) ==
    LET try == IF ~response.conn THEN Raise(Exc("ClientError"))
               ELSE IF response.status # 201
                    THEN Raise(HTTPException(response.status,
                                             "Failed to create Retell Agent"))
               ELSE IF response.body = "notjson" THEN Raise(Exc("ContentTypeError"))
               ELSE Return(response.json)
    IN  IF try.raised
        THEN Raise(HTTPException(500, "Error creating Retell Agent"))
        ELSE try

\* the status never looked at: whatever body parses is the answer
_create_web_call_anystatus(response) ==
    IF ~response.conn \/ response.body = "notjson"
    THEN Raise(HTTPException(500, "Error creating web call"))
    ELSE Return(response.json)

\* the HTTPException of a non-201 status raised again as it is
_create_web_call_reraise(response) ==
    IF ~response.conn \/ response.body = "notjson"
    THEN Raise(HTTPException(500, "Error creating web call"))
    ELSE IF response.status # 201
         THEN Raise(HTTPException(response.status, "Failed to create web call"))
    ELSE Return(response.json)

\* _create_web_call, from the reply on: the body is parsed (and printed)
\* before the status is looked at
_create_web_call(response) ==
    LET try == IF ~response.conn THEN Raise(Exc("ClientError"))
               ELSE IF response.body = "notjson" THEN Raise(Exc("ContentTypeError"))
               ELSE IF response.status # 201
                    THEN Raise(HTTPException(response.status,
                                             "Failed to create web call"))
               ELSE Return(response.json)
    IN  IF try.raised
        THEN Raise(HTTPException(500, "Error creating web call"))
        ELSE try

\* "\n".join(parts): texts are sequences of tokens
RECURSIVE Join(_)
Join(parts) ==
    IF parts = <<>> THEN <<>>
    ELSE IF Len(parts) = 1 THEN parts[1]
    ELSE parts[1] \o <<"\n">> \o Join(Tail(parts))

\* f"{s.role}: {s.script_sentence}"
FormatLine(s) == <<s.role, ": ", s.script_sentence>>

\* every line ended by a newline, the last one too
Conversation_trailing(script) ==
    Join([i \in 1..Len(script) |-> FormatLine(script[i])]) \o <<"\n">>

\* the conversation _generate_simulation_prompt sends as the user message
Conversation(script) == Join([i \in 1..Len(script) |-> FormatLine(script[i])])

\* the status check left out: the content of any JSON reply is returned
_generate_simulation_prompt_nocheck(response) ==
    IF ~response.conn \/ response.body = "notjson" \/ ~Present(response.json, "content")
    THEN Raise(HTTPException(500, "Error generating simulation prompt"))
    ELSE Return(response.json["content"])

\* _generate_simulation_prompt, from the reply on
_generate_simulation_prompt(response) ==
    LET try == IF ~response.conn THEN Raise(Exc("ClientError"))
               ELSE IF response.status # 200
                    THEN Raise(HTTPException(response.status, "response"))
               ELSE IF response.body = "notjson" THEN Raise(Exc("ContentTypeError"))
               ELSE IF ~Present(response.json, "content") THEN Raise(Exc("KeyError"))
               ELSE Return(response.json["content"])
    IN  IF try.raised
        THEN Raise(HTTPException(500, "Error generating simulation prompt"))
        ELSE try

\* ------------------------------------------------- the operations' handlers
\* create_simulation: except Exception -> 500
create_except(exc) == HTTPException(500, "Error creating simulation")

\* update_simulation: except HTTPException -> raise he; except Exception -> 500
update_except(exc) ==
    IF exc.type = "HTTPException" THEN exc
    ELSE HTTPException(500, "Error updating simulation")

\* start_audio_simulation_preview: the same two clauses
preview_except(exc) ==
    IF exc.type = "HTTPException" THEN exc
    ELSE HTTPException(500, "Error starting audio simulation preview")

\* ------------------------------------------------------ the update document
\* request field -> stored field
field_mappings ==
    [name |-> "name", division_id |-> "divisionId", department_id |-> "departmentId",
     type |-> "type", tags |-> "tags", status |-> "status",
     estimated_time_to_attempt_in_mins |-> "estimatedTimeToAttemptInMins",
     key_objectives |-> "keyObjectives", overview_video |-> "overviewVideo",
     quick_tips |-> "quickTips", voice_id |-> "voiceId", language |-> "language",
     mood |-> "mood", voice_speed |-> "voice_speed", prompt |-> "prompt",
     simulation_completion_repetition |-> "simulationCompletionRepetition",
     simulation_max_repetition |-> "simulationMaxRepetition",
     final_simulation_score_criteria |-> "finalSimulationScoreCriteria",
     is_locked |-> "isLocked", version |-> "version",
     assistant_id |-> "assistantId", slides |-> "slides"]

\* add_if_exists: the field goes into update_doc under its stored name when
\* the request's value is not None
add_if_exists(request, update_doc, field_name, camel_case_name) ==
    IF Present(request, field_name)
    THEN SetField(update_doc, camel_case_name, request[field_name])
    ELSE update_doc

\* for field, doc_field in field_mappings.items(): add_if_exists(field, doc_field)
RECURSIVE AddMapped(_, _, _)
AddMapped(request, update_doc, todo) ==
    IF todo = {} THEN update_doc
    ELSE LET field == CHOOSE f \in todo : TRUE
         IN  AddMapped(request,
                       add_if_exists(request, update_doc, field, field_mappings[field]),
                       todo \ {field})

\* the stored form of the nested blocks
Lvl1Doc(v) ==
    [isEnabled |-> v.is_enabled, enablePractice |-> v.enable_practice,
     hideAgentScript |-> v.hide_agent_script,
     hideCustomerScript |-> v.hide_customer_script,
     hideKeywordScores |-> v.hide_keyword_scores,
     hideSentimentScores |-> v.hide_sentiment_scores,
     hideHighlights |-> v.hide_highlights, hideCoachingTips |-> v.hide_coaching_tips,
     enablePostSimulationSurvey |-> v.enable_post_simulation_survey,
     aiPoweredPausesAndFeedback |-> v.ai_powered_pauses_and_feedback]

LvlDoc(v) == [isEnabled |-> v.is_enabled]

ScoringDoc(v) ==
    [isEnabled |-> v.is_enabled, keywordScore |-> v.keyword_score,
     clickScore |-> v.click_score]

PracticeDoc(v) ==
    [isUnlimited |-> v.is_unlimited, preRequisiteLimit |-> v.pre_requisite_limit]

\* the "special objects" of the request, each replaced wholesale
AddSpecial(request, update_doc) ==
    LET d1 == IF Present(request, "script")
              THEN SetField(update_doc, "script", request.script) ELSE update_doc
        d2 == IF Present(request, "lvl1")
              THEN SetField(d1, "lvl1", Lvl1Doc(request.lvl1)) ELSE d1
        d3 == IF Present(request, "lvl2")
              THEN SetField(d2, "lvl2", LvlDoc(request.lvl2)) ELSE d2
        d4 == IF Present(request, "lvl3")
              THEN SetField(d3, "lvl3", LvlDoc(request.lvl3)) ELSE d3
        d5 == IF Present(request, "simulation_scoring_metrics")
              THEN SetField(d4, "simulationScoringMetrics",
                            ScoringDoc(request.simulation_scoring_metrics))
              ELSE d4
    IN  IF Present(request, "sim_practice")
        THEN SetField(d5, "simPractice", PracticeDoc(request.sim_practice)) ELSE d5

\* update_doc as it stands before the provisioning branch
BuildUpdateDoc(request) ==
    AddSpecial(request, AddMapped(request, NoDoc, DOMAIN field_mappings))

\* provisioning also triggered by a new voice
ProvisionNeeded_voice(request) ==
    Present(request, "prompt") \/ Present(request, "voice_id")

\* if request.prompt is not None
ProvisionNeeded(request) == Present(request, "prompt")

\* the request's voice never looked at
VoiceOrDefault_fixed(request) == "11labs-Adrian"

\* request.voice_id or "11labs-Adrian"
VoiceOrDefault(request) ==
    IF Present(request, "voice_id") /\ request.voice_id # ""
    THEN request.voice_id ELSE "11labs-Adrian"

\* getattr(request, name): the value, "None" when the field is None
Get(request, name) == IF Present(request, name) THEN request[name] ELSE "None"

\* the LLM created from a fixed prompt, not from the one handed in
LlmRequest_fixed(prompt) == [general_prompt |-> "g1"]

\* data of _create_retell_llm
LlmRequest(prompt) == [general_prompt |-> prompt]

\* data of _create_retell_agent
AgentRequest(llm_id, voice_id) == [llm_id |-> llm_id, voice_id |-> voice_id]

\* data of _create_web_call
WebCallRequest(agent_id) == [agent_id |-> agent_id]

\* update_doc["llmId"] = llm_response["llm_id"]
StageLlm(update_doc, llm_response) == SetField(update_doc, "llmId", llm_response.llm_id)

\* the agent identifier never staged
StageAgent_dropped(update_doc, agent_response) == update_doc

\* update_doc["agentId"] = agent_response["agent_id"]
StageAgent(update_doc, agent_response) ==
    SetField(update_doc, "agentId", agent_response.agent_id)

\* the creation stamps written along with the modification stamps
AddMetadata_created(update_doc, t, user_id) ==
    SetField(SetField(SetField(SetField(update_doc, "lastModified", t),
                               "lastModifiedBy", user_id),
                      "createdOn", t),
             "createdBy", user_id)

\* the metadata added last
AddMetadata(update_doc, t, user_id) ==
    SetField(SetField(update_doc, "lastModified", t), "lastModifiedBy", user_id)

\* the document created as already published
SimulationDoc_published(request, user_id, prompt, t) ==
    [name |-> request.name, divisionId |-> request.division_id,
     departmentId |-> request.department_id, type |-> request.type,
     script |-> request.script, lastModifiedBy |-> user_id, lastModified |-> t,
     createdBy |-> user_id, createdOn |-> t, status |-> "published", version |-> 1,
     prompt |-> prompt, tags |-> request.tags]

\* simulation_doc of create_simulation
SimulationDoc(request, user_id, prompt, t) ==
    [name |-> request.name, divisionId |-> request.division_id,
     departmentId |-> request.department_id, type |-> request.type,
     script |-> request.script, lastModifiedBy |-> user_id, lastModified |-> t,
     createdBy |-> user_id, createdOn |-> t, status |-> "draft", version |-> 1,
     prompt |-> prompt, tags |-> request.tags]

\* result.modified_count of update_one: 1 when a matched document changed
ModifiedCount(store, oid, update_doc) ==
    IF oid \in DOMAIN store /\ ApplySet(store[oid], update_doc) # store[oid]
    THEN 1 ELSE 0

\* the modified count never looked at
UpdateOutcome_unchecked(modified_count, sim_id) ==
    Return([id |-> sim_id, status |-> "success"])

\* what update_simulation does with the store's answer
UpdateOutcome(modified_count, sim_id) ==
    IF modified_count = 0
    THEN Raise(HTTPException(500, "Failed to update simulation"))
    ELSE Return([id |-> sim_id, status |-> "success"])

\* simulation.get("agentId"); 0 stands for None
GetAgentId(simulation) ==
    IF Present(simulation, "agentId") THEN simulation.agentId ELSE 0

\* the agent check left out
NoAgent_never(agent_id) == FALSE

\* if not agent_id
NoAgent(agent_id) == agent_id = 0

\* ------------------------------------------------------------ configuration
\* the environment variables a deployment may set; a variable that is not set
\* is absent from the environment's domain
EnvNames ==
    {"mongo-url", "db-name", "DEEPGRAM_API_KEY", "RETELL_API_KEY", "OPENAI_API_KEY",
     "AZURE_OPENAI_DEPLOYMENT_NAME", "AZURE_OPENAI_KEY", "AZURE_OPENAI_BASE_URL"}

Environments == UNION { [S -> {"", "x"}] : S \in SUBSET EnvNames }

\* os.getenv(name, default)
getenv(env, name, default) == IF name \in DOMAIN env THEN env[name] ELSE default

\* the module-level assignments of config.py
ConfigValues(env) ==
    [MONGO_URI |-> getenv(env, "mongo-url", "mongodb://localhost:27017"),
     DB_NAME |-> getenv(env, "db-name", "everai_simulator"),
     DEEPGRAM_API_KEY |-> getenv(env, "DEEPGRAM_API_KEY", "deepgram-default-key"),
     RETELL_API_KEY |-> getenv(env, "RETELL_API_KEY", "retell-default-key"),
     AZURE_OPENAI_DEPLOYMENT_NAME |-> getenv(env, "AZURE_OPENAI_DEPLOYMENT_NAME", ""),
     AZURE_OPENAI_KEY |-> getenv(env, "AZURE_OPENAI_KEY", ""),
     AZURE_OPENAI_BASE_URL |-> getenv(env, "AZURE_OPENAI_BASE_URL", "")]

\* "Validate configuration": if not VALUE: raise ValueError, one value
\* after the other (DB_NAME is only required to be a string, which it is)
ValidateConfig(values) ==
    IF values.MONGO_URI = "" THEN Raise(Exc("ValueError"))
    ELSE IF values.DEEPGRAM_API_KEY = "" THEN Raise(Exc("ValueError"))
    ELSE IF values.RETELL_API_KEY = "" THEN Raise(Exc("ValueError"))
    ELSE IF values.AZURE_OPENAI_DEPLOYMENT_NAME = "" THEN Raise(Exc("ValueError"))
    ELSE IF values.AZURE_OPENAI_KEY = "" THEN Raise(Exc("ValueError"))
    ELSE IF values.AZURE_OPENAI_BASE_URL = "" THEN Raise(Exc("ValueError"))
    ELSE Return(values)

\* from config import ...: the names each module takes from config
ServiceImports == {"OPENAI_API_KEY", "RETELL_API_KEY"}
DatabaseImports == {"MONGO_URI", "DB_NAME"}

\* the import statement: ImportError when config does not define a name
ImportFrom(namespace, names) ==
    IF names \subseteq DOMAIN namespace
    THEN Return([n \in names |-> namespace[n]])
    ELSE Raise(Exc("ImportError"))

\* the config module of a process: not yet executed, executed to its end
\* (with the names it defines), or left by an exception
NotLoaded == [state |-> "unloaded", names |-> <<>>]

\* -------------------------------------------------------------------- state
VARIABLES
    sims,       \* db.simulations: ObjectId -> document
    nextOid,    \* the next ObjectId the store assigns
    llms,       \* provider side: llm_id -> the request it was created from
    agents,     \* provider side: agent_id -> the request it was created from
    now,        \* the last reading of datetime.utcnow(), in milliseconds
    ops,        \* operations started so far
    pc,         \* per handler: the await it is suspended at
    req,        \* per handler: the request being served
    existing,   \* per handler: the document find_one returned
    doc,        \* per handler: update_doc / simulation_doc
    calls,      \* per handler: the external calls of the current operation
    result,     \* per handler: the response or HTTPException of the operation
    environ,    \* os.environ of the process
    config      \* the process's config module and how far start-up got

vars == <<sims, nextOid, llms, agents, now, ops, pc, req, existing, doc, calls, result,
          environ, config>>

NoResult == [status_code |-> 0, detail |-> "", body |-> <<>>]
Success(body) == [status_code |-> 200, detail |-> "", body |-> body]
Failure(exc) == [status_code |-> exc.status_code, detail |-> exc.detail, body |-> <<>>]

\* The record of one external call: what was sent, the raw reply (for a store
\* call: whether the store answered) and the value that came back.
Pending == [conn |-> FALSE, status |-> 0, body |-> "pending"]
Raw(reply) == [conn |-> reply.conn, status |-> reply.status, body |-> reply.body]
StoreReply(ok) == [conn |-> ok, status |-> 0, body |-> "store"]
Call(api, arg) == [api |-> api, arg |-> arg, reply |-> Pending, out |-> <<>>]
Settled(log, response) ==
    [log EXCEPT ![Len(log)].reply = Raw(response), ![Len(log)].out = response.json]
StoreCall(api, arg, ok, out) ==
    [api |-> api, arg |-> arg, reply |-> StoreReply(ok), out |-> out]

\* The service attaches to a database that outlives it: the collection holds
\* one simulation, as create_simulation left it for another user; no handler
\* is running.
InitStore ==
    /\ sims = (1 :> SimulationDoc([name |-> "n0", division_id |-> "div",
                                   department_id |-> "dep", type |-> "audio",
                                   tags |-> {"t"}, script |-> Script],
                                  "u2", "g1", 0))
    /\ nextOid = 2
    /\ llms = <<>>
    /\ agents = <<>>
    /\ now = 0
    /\ ops = 0
    /\ pc = [p \in Procs |-> "idle"]
    /\ req = [p \in Procs |-> NoRequest]
    /\ existing = [p \in Procs |-> NoDoc]
    /\ doc = [p \in Procs |-> NoDoc]
    /\ calls = [p \in Procs |-> <<>>]
    /\ result = [p \in Procs |-> NoResult]

\* The handlers run in a process that did start: its config module ran to its
\* end and defines the names the service and the database module import.
Init ==
    /\ InitStore
    /\ environ = [n \in EnvNames |-> "x"]
    /\ config = [state |-> "serving",
                 names |-> ConfigValues([n \in EnvNames |-> "x"])
                           @@ [n \in ServiceImports |-> "x"]]

\* A finished operation's response is delivered, and its frame dropped,
\* before any other step: delivery touches nothing the handlers share.
NoneDone == \A q \in Procs : pc[q] # "done"
At(p, where) == pc[p] = where /\ NoneDone
Free(p) == At(p, "idle") /\ ops < MaxOps

Deliver(p) ==
    /\ pc[p] = "done"
    /\ pc' = [pc EXCEPT ![p] = "idle"]
    /\ req' = [req EXCEPT ![p] = NoRequest]
    /\ existing' = [existing EXCEPT ![p] = NoDoc]
    /\ doc' = [doc EXCEPT ![p] = NoDoc]
    /\ calls' = [calls EXCEPT ![p] = <<>>]
    /\ result' = [result EXCEPT ![p] = NoResult]
    /\ UNCHANGED <<sims, nextOid, llms, agents, now, ops, environ, config>>

\* the operation of handler p ends with this response
Finish(p, res) ==
    /\ pc' = [pc EXCEPT ![p] = "done"]
    /\ result' = [result EXCEPT ![p] = res]

\* a new operation starts on handler p
Begin(p, r) ==
    /\ ops' = ops + 1
    /\ req' = [req EXCEPT ![p] = r]

\* datetime.utcnow() may read t: the clock never runs backwards, and two
\* readings a millisecond apart or less may be equal
Utcnow(t) == t \in {now, now + 1} /\ t <= MaxTime

\* ------------------------------------------------------- create_simulation
\* up to the POST to the text-generation provider
CreateStart(p, r) ==
    /\ Free(p)
    /\ Begin(p, r)
    /\ calls' = [calls EXCEPT ![p] =
                    <<Call("chat-completions", Conversation(r.fields.script))>>]
    /\ pc' = [pc EXCEPT ![p] = "create:gen"]
    /\ UNCHANGED <<sims, nextOid, llms, agents, now, existing, doc, result, environ, config>>

\* the provider's reply, the document, up to insert_one
CreateGenReturn(p, reply, t) ==
    /\ At(p, "create:gen")
    /\ Utcnow(t)
    /\ LET response == WithJson(reply, "content", "g1")
           prompt == _generate_simulation_prompt(response)
       IN  /\ calls' = [calls EXCEPT ![p] = Settled(@, response)]
           /\ IF prompt.raised
              THEN /\ Finish(p, Failure(create_except(prompt.exc)))
                   /\ UNCHANGED <<doc, now>>
              ELSE /\ doc' = [doc EXCEPT ![p] =
                                SimulationDoc(req[p].fields, req[p].user_id,
                                              prompt.value, t)]
                   /\ now' = t
                   /\ pc' = [pc EXCEPT ![p] = "create:insert"]
                   /\ UNCHANGED result
    /\ UNCHANGED <<sims, nextOid, llms, agents, ops, req, existing, environ, config>>

\* insert_one and the response
CreateInsert(p, ok) ==
    /\ At(p, "create:insert")
    /\ calls' = [calls EXCEPT ![p] =
                    Append(@, StoreCall("insert_one", doc[p], ok,
                                        IF ok THEN <<nextOid>> ELSE <<>>))]
    /\ IF ok
       THEN /\ sims' = sims @@ (nextOid :> doc[p])
            /\ nextOid' = nextOid + 1
            /\ Finish(p, Success([id |-> OidStr(nextOid), status |-> "success",
                                  prompt |-> doc[p].prompt]))
       ELSE /\ Finish(p, Failure(create_except(Exc("PyMongoError"))))
            /\ UNCHANGED <<sims, nextOid>>
    /\ UNCHANGED <<llms, agents, now, ops, req, existing, doc, environ, config>>

\* ------------------------------------------------------- update_simulation
\* ObjectId(sim_id), up to find_one
UpdateStart(p, r) ==
    /\ Free(p)
    /\ Begin(p, r)
    /\ LET sim_id_object == ObjectId(r.sim_id)
       IN  IF sim_id_object.raised
           THEN Finish(p, Failure(update_except(sim_id_object.exc)))
           ELSE /\ pc' = [pc EXCEPT ![p] = "update:find"]
                /\ UNCHANGED result
    /\ UNCHANGED <<sims, nextOid, llms, agents, now, existing, doc, calls, environ, config>>

\* find_one, the update document, up to the next await: the POST that
\* creates the LLM when a prompt is given, update_one otherwise
UpdateFind(p, ok, t) ==
    /\ At(p, "update:find")
    /\ Utcnow(t)
    /\ LET oid == ObjectId(req[p].sim_id).value
           request == req[p].fields
           update_doc == BuildUpdateDoc(request)
           existing_sim == IF ok /\ oid \in DOMAIN sims THEN sims[oid] ELSE NoDoc
           find == StoreCall("find_one", oid, ok, existing_sim)
       IN  IF ~ok
           THEN /\ Finish(p, Failure(update_except(Exc("PyMongoError"))))
                /\ calls' = [calls EXCEPT ![p] = Append(@, find)]
                /\ UNCHANGED <<existing, doc, now>>
           ELSE IF existing_sim = NoDoc
           THEN /\ Finish(p, Failure(update_except(
                                HTTPException(404, "Simulation not found"))))
                /\ calls' = [calls EXCEPT ![p] = Append(@, find)]
                /\ UNCHANGED <<existing, doc, now>>
           ELSE /\ existing' = [existing EXCEPT ![p] = existing_sim]
                /\ UNCHANGED result
                /\ IF ProvisionNeeded(request)
                   THEN /\ doc' = [doc EXCEPT ![p] = update_doc]
                        /\ calls' = [calls EXCEPT ![p] =
                               Append(Append(@, find),
                                      Call("create-retell-llm",
                                           LlmRequest(Get(request, "prompt"))))]
                        /\ pc' = [pc EXCEPT ![p] = "update:llm"]
                        /\ UNCHANGED now
                   ELSE /\ doc' = [doc EXCEPT ![p] =
                                      AddMetadata(update_doc, t, req[p].user_id)]
                        /\ calls' = [calls EXCEPT ![p] = Append(@, find)]
                        /\ pc' = [pc EXCEPT ![p] = "update:write"]
                        /\ now' = t
    /\ UNCHANGED <<sims, nextOid, llms, agents, ops, req, environ, config>>

\* the reply to create-retell-llm, up to the POST that creates the agent
UpdateLlmReturn(p, reply) ==
    /\ At(p, "update:llm")
    /\ LET response == WithJson(reply, "llm_id", Len(llms) + 1)
           llm_response == _create_retell_llm(response)
           sent == calls[p][Len(calls[p])].arg
       IN  /\ llms' = IF response.conn /\ response.status = 201
                      THEN Append(llms, sent) ELSE llms
           /\ IF llm_response.raised
              THEN /\ Finish(p, Failure(update_except(llm_response.exc)))
                   /\ calls' = [calls EXCEPT ![p] = Settled(@, response)]
                   /\ UNCHANGED doc
              ELSE IF ~Present(llm_response.value, "llm_id")
              THEN /\ Finish(p, Failure(update_except(Exc("KeyError"))))
                   /\ calls' = [calls EXCEPT ![p] = Settled(@, response)]
                   /\ UNCHANGED doc
              ELSE /\ doc' = [doc EXCEPT ![p] = StageLlm(@, llm_response.value)]
                   /\ calls' = [calls EXCEPT ![p] =
                          Append(Settled(@, response),
                                 Call("create-agent",
                                      AgentRequest(llm_response.value.llm_id,
                                                   VoiceOrDefault(req[p].fields))))]
                   /\ pc' = [pc EXCEPT ![p] = "update:agent"]
                   /\ UNCHANGED result
    /\ UNCHANGED <<sims, nextOid, agents, now, ops, req, existing, environ, config>>

\* the reply to create-agent, the metadata, up to update_one
UpdateAgentReturn(p, reply, t) ==
    /\ At(p, "update:agent")
    /\ Utcnow(t)
    /\ LET response == WithJson(reply, "agent_id", Len(agents) + 1)
           agent_response == _create_retell_agent(response)
           sent == calls[p][Len(calls[p])].arg
       IN  /\ agents' = IF response.conn /\ response.status = 201
                        THEN Append(agents, sent) ELSE agents
           /\ IF agent_response.raised
              THEN /\ Finish(p, Failure(update_except(agent_response.exc)))
                   /\ calls' = [calls EXCEPT ![p] = Settled(@, response)]
                   /\ UNCHANGED <<doc, now>>
              ELSE IF ~Present(agent_response.value, "agent_id")
              THEN /\ Finish(p, Failure(update_except(Exc("KeyError"))))
                   /\ calls' = [calls EXCEPT ![p] = Settled(@, response)]
                   /\ UNCHANGED <<doc, now>>
              ELSE /\ doc' = [doc EXCEPT ![p] =
                                 AddMetadata(StageAgent(@, agent_response.value),
                                             t, req[p].user_id)]
                   /\ calls' = [calls EXCEPT ![p] = Settled(@, response)]
                   /\ pc' = [pc EXCEPT ![p] = "update:write"]
                   /\ now' = t
                   /\ UNCHANGED result
    /\ UNCHANGED <<sims, nextOid, llms, ops, req, existing, environ, config>>

\* update_one and the response
UpdateWrite(p, ok) ==
    /\ At(p, "update:write")
    /\ LET oid == ObjectId(req[p].sim_id).value
           matched == ok /\ oid \in DOMAIN sims
           before == IF matched THEN sims[oid] ELSE NoDoc
           after == IF matched THEN ApplySet(sims[oid], doc[p]) ELSE NoDoc
           outcome == UpdateOutcome(ModifiedCount(sims, oid, doc[p]), req[p].sim_id)
       IN  /\ calls' = [calls EXCEPT ![p] =
                  Append(@, StoreCall("update_one", [id |-> oid, set |-> doc[p]], ok,
                                      [before |-> before, after |-> after]))]
           /\ IF ~ok
              THEN /\ Finish(p, Failure(update_except(Exc("PyMongoError"))))
                   /\ UNCHANGED sims
              ELSE /\ sims' = IF matched THEN [sims EXCEPT ![oid] = after] ELSE sims
                   /\ IF outcome.raised
                      THEN Finish(p, Failure(update_except(outcome.exc)))
                      ELSE Finish(p, Success(outcome.value))
    /\ UNCHANGED <<nextOid, llms, agents, now, ops, req, existing, doc, environ, config>>

\* ------------------------------------------ start_audio_simulation_preview
\* ObjectId(sim_id), up to find_one
PreviewStart(p, r) ==
    /\ Free(p)
    /\ Begin(p, r)
    /\ LET sim_id_object == ObjectId(r.sim_id)
       IN  IF sim_id_object.raised
           THEN Finish(p, Failure(preview_except(sim_id_object.exc)))
           ELSE /\ pc' = [pc EXCEPT ![p] = "preview:find"]
                /\ UNCHANGED result
    /\ UNCHANGED <<sims, nextOid, llms, agents, now, existing, doc, calls, environ, config>>

\* find_one, the agent check, up to the POST that creates the web call
PreviewFind(p, ok) ==
    /\ At(p, "preview:find")
    /\ LET oid == ObjectId(req[p].sim_id).value
           simulation == IF ok /\ oid \in DOMAIN sims THEN sims[oid] ELSE NoDoc
           find == StoreCall("find_one", oid, ok, simulation)
           agent_id == GetAgentId(simulation)
       IN  IF ~ok
           THEN /\ Finish(p, Failure(preview_except(Exc("PyMongoError"))))
                /\ calls' = [calls EXCEPT ![p] = Append(@, find)]
                /\ UNCHANGED existing
           ELSE IF simulation = NoDoc
           THEN /\ Finish(p, Failure(preview_except(
                                HTTPException(404, "Simulation not found"))))
                /\ calls' = [calls EXCEPT ![p] = Append(@, find)]
                /\ UNCHANGED existing
           ELSE /\ existing' = [existing EXCEPT ![p] = simulation]
                /\ IF NoAgent(agent_id)
                   THEN /\ Finish(p, Failure(preview_except(
                               HTTPException(400, "Simulation does not have an agent configured"))))
                        /\ calls' = [calls EXCEPT ![p] = Append(@, find)]
                   ELSE /\ calls' = [calls EXCEPT ![p] =
                               Append(Append(@, find),
                                      Call("create-web-call", WebCallRequest(agent_id)))]
                        /\ pc' = [pc EXCEPT ![p] = "preview:call"]
                        /\ UNCHANGED result
    /\ UNCHANGED <<sims, nextOid, llms, agents, now, ops, req, doc, environ, config>>

\* the reply to create-web-call and the response
PreviewCallReturn(p, reply) ==
    /\ At(p, "preview:call")
    /\ LET response == WithJson(reply, "access_token", "tok")
           web_call == _create_web_call(response)
       IN  /\ calls' = [calls EXCEPT ![p] = Settled(@, response)]
           /\ IF web_call.raised
              THEN Finish(p, Failure(preview_except(web_call.exc)))
              ELSE IF ~Present(web_call.value, "access_token")
              THEN Finish(p, Failure(preview_except(Exc("KeyError"))))
              ELSE Finish(p, Success([access_token |-> web_call.value.access_token]))
    /\ UNCHANGED <<sims, nextOid, llms, agents, now, ops, req, existing, doc, environ, config>>

\* --------------------------------------------------------- the environment
\* Another client of the database removes a simulation (this service has no
\* delete of its own).
ExternalDelete(oid) ==
    /\ NoneDone
    /\ oid \in DOMAIN sims
    /\ sims' = [o \in DOMAIN sims \ {oid} |-> sims[o]]
    /\ UNCHANGED <<nextOid, llms, agents, now, ops, pc, req, existing, doc, calls, result, environ, config>>

\* ------------------------------------------------------------ specification
Next ==
    \/ \E p \in Procs : Deliver(p)
    \/ \E p \in Procs, r \in CreateRequests : CreateStart(p, r)
    \/ \E p \in Procs, reply \in OpenAIReplies, t \in 0..MaxTime :
          CreateGenReturn(p, reply, t)
    \/ \E p \in Procs, ok \in BOOLEAN : CreateInsert(p, ok)
    \/ \E p \in Procs, r \in UpdateRequests : UpdateStart(p, r)
    \/ \E p \in Procs, ok \in BOOLEAN, t \in 0..MaxTime : UpdateFind(p, ok, t)
    \/ \E p \in Procs, reply \in RetellReplies : UpdateLlmReturn(p, reply)
    \/ \E p \in Procs, reply \in RetellReplies, t \in 0..MaxTime :
          UpdateAgentReturn(p, reply, t)
    \/ \E p \in Procs, ok \in BOOLEAN : UpdateWrite(p, ok)
    \/ \E p \in Procs, r \in PreviewRequests : PreviewStart(p, r)
    \/ \E p \in Procs, ok \in BOOLEAN : PreviewFind(p, ok)
    \/ \E p \in Procs, reply \in WebCallReplies : PreviewCallReturn(p, reply)

Spec == Init /\ [][Next]_vars

\* the same service beside another client of the database
NextEnv ==
    \/ Next
    \/ \E oid \in DOMAIN sims : ExternalDelete(oid)

SpecEnv == Init /\ [][NextEnv]_vars

\* create_simulation alone, called with one script after another
NextScript ==
    \/ Deliver("t1")
    \/ \E r \in ScriptRequests : CreateStart("t1", r)
    \/ \E reply \in OpenAIReplies, t \in 0..MaxTime : CreateGenReturn("t1", reply, t)
    \/ \E ok \in BOOLEAN : CreateInsert("t1", ok)

SpecScript == Init /\ [][NextScript]_vars

\* ------------------------------------------------------------ process start
\* import config: config.py runs once, to its end or to its first ValueError
LoadConfig ==
    /\ config.state = "unloaded"
    /\ LET loaded == ValidateConfig(ConfigValues(environ))
       IN  config' = IF loaded.raised
                     THEN [state |-> "raised", names |-> <<>>]
                     ELSE [state |-> "loaded", names |-> loaded.value]
    /\ UNCHANGED <<sims, nextOid, llms, agents, now, ops, pc, req, existing, doc, calls,
                   result, environ>>

\* simulation_service.py, lines 6 and 7: the names taken from config, by the
\* service and then by the database module
ImportService ==
    /\ config.state = "loaded"
    /\ LET service == ImportFrom(config.names, ServiceImports)
           database == ImportFrom(config.names, DatabaseImports)
       IN  config' = [config EXCEPT !.state =
                         IF service.raised \/ database.raised
                         THEN "import_error" ELSE "serving"]
    /\ UNCHANGED <<sims, nextOid, llms, agents, now, ops, pc, req, existing, doc, calls,
                   result, environ>>

\* a process started in any environment
InitBoot ==
    /\ InitStore
    /\ environ \in Environments
    /\ config = NotLoaded

NextBoot == LoadConfig \/ ImportService

SpecBoot == InitBoot /\ [][NextBoot]_vars

\* =================================================================== claims
\* vocabulary of the claims, over the record of an operation's calls
ProviderApis == {"chat-completions", "create-retell-llm", "create-agent", "create-web-call"}
StoreApis == {"find_one", "insert_one", "update_one"}
Idx(p) == 1..Len(calls[p])
Replied(c) == c.reply # Pending
\* the provider's documented success: its status, with the documented body
Succeeded(c) ==
    /\ c.reply.conn
    /\ c.api \in ProviderApis =>
          /\ c.reply.status = (IF c.api = "chat-completions" THEN 200 ELSE 201)
          /\ c.reply.body = "json"
Failed(c) == Replied(c) /\ ~Succeeded(c)
Issued(p, api) == \E i \in Idx(p) : calls[p][i].api = api
IsDone(p, op) == pc[p] = "done" /\ req[p].op = op
\* field f of the matched document differs before and after an update_one
Changed(out, f) ==
    /\ out.before # NoDoc
    /\ \/ Present(out.before, f) # Present(out.after, f)
       \/ Present(out.before, f) /\ Present(out.after, f) /\ out.before[f] # out.after[f]

\* C1: in update_simulation, update_one is called (or about to be called)
\* only after create-LLM and then create-agent have both succeeded when the
\* request carries a prompt; once either provisioning call has failed the
\* operation has ended with status 500 and has made no store write.
C1_WriteAfterProvisioning ==
    \A p \in Procs : req[p].op = "update" =>
        /\ (pc[p] = "update:write" \/ Issued(p, "update_one")) /\ Present(req[p].fields, "prompt")
              => \E j, k \in Idx(p) :
                    /\ j < k
                    /\ calls[p][j].api = "create-retell-llm" /\ Succeeded(calls[p][j])
                    /\ calls[p][k].api = "create-agent" /\ Succeeded(calls[p][k])
                    /\ \A i \in Idx(p) : calls[p][i].api = "update_one" => k < i
        /\ (\E i \in Idx(p) : calls[p][i].api \in ProviderApis /\ Failed(calls[p][i]))
              => /\ pc[p] = "done"
                 /\ result[p].status_code = 500
                 /\ ~Issued(p, "update_one") /\ ~Issued(p, "insert_one")

\* the LLM was created, the agent was refused, and the update was abandoned
C1_Witness ==
    \E p \in Procs :
        /\ IsDone(p, "update")
        /\ \E j, k \in Idx(p) :
              /\ calls[p][j].api = "create-retell-llm" /\ Succeeded(calls[p][j])
              /\ calls[p][k].api = "create-agent" /\ Failed(calls[p][k])
        /\ result[p].status_code = 500
        /\ "llmId" \in DOMAIN doc[p]

\* C2: within one update_simulation a create-agent call directly follows a
\* create-LLM call of the same operation that succeeded, carries the llm_id
\* that call returned, and no call follows a create-LLM call that failed.
C2_AgentAfterLlm ==
    \A p \in Procs : \A i \in Idx(p) :
        /\ calls[p][i].api = "create-agent" =>
              /\ i > 1
              /\ calls[p][i - 1].api = "create-retell-llm"
              /\ Succeeded(calls[p][i - 1])
              /\ calls[p][i].arg.llm_id = calls[p][i - 1].out.llm_id
              /\ Present(req[p].fields, "prompt")
        /\ calls[p][i].api = "create-retell-llm" /\ Failed(calls[p][i]) =>
              i = Len(calls[p])

\* a create-agent call is in flight with the llm_id just returned
C2_Witness ==
    \E p \in Procs :
        /\ pc[p] = "update:agent"
        /\ calls[p][Len(calls[p])].api = "create-agent"
        /\ calls[p][Len(calls[p])].arg.llm_id = Len(llms)

\* C3: an update_one of update_simulation sets llmId and agentId together or
\* not at all and changes both or neither in the stored record, and every
\* stored record has both or neither.
C3_PairedBinding ==
    /\ \A p \in Procs : \A i \in Idx(p) :
          calls[p][i].api = "update_one" =>
             /\ Present(calls[p][i].arg.set, "llmId") <=> Present(calls[p][i].arg.set, "agentId")
             /\ Changed(calls[p][i].out, "llmId") <=> Changed(calls[p][i].out, "agentId")
    /\ \A oid \in DOMAIN sims :
          Present(sims[oid], "llmId") <=> Present(sims[oid], "agentId")

\* a successful update changed both bindings of the record
C3_Witness ==
    \E p \in Procs :
        /\ IsDone(p, "update") /\ result[p].status_code = 200
        /\ \E i \in Idx(p) :
              /\ calls[p][i].api = "update_one"
              /\ Changed(calls[p][i].out, "llmId") /\ Changed(calls[p][i].out, "agentId")

\* C4: update_simulation issues provider calls, and sets llmId / agentId, if
\* and only if the request's prompt is present: without a prompt no provider
\* call is issued and the update leaves llmId and agentId as stored; with a
\* prompt the create-LLM call is issued once the record is found, and a
\* successful update has set both.
C4_ProvisionIffPrompt ==
    \A p \in Procs : req[p].op = "update" =>
        /\ ~Present(req[p].fields, "prompt") =>
              /\ \A i \in Idx(p) : calls[p][i].api \notin ProviderApis
              /\ \A i \in Idx(p) : calls[p][i].api = "update_one" =>
                    /\ ~Present(calls[p][i].arg.set, "llmId")
                    /\ ~Present(calls[p][i].arg.set, "agentId")
                    /\ ~Changed(calls[p][i].out, "llmId")
                    /\ ~Changed(calls[p][i].out, "agentId")
        /\ Present(req[p].fields, "prompt") =>
              /\ existing[p] # NoDoc => Issued(p, "create-retell-llm")
              /\ pc[p] = "done" /\ result[p].status_code = 200 =>
                    \E i \in Idx(p) :
                        /\ calls[p][i].api = "update_one"
                        /\ Present(calls[p][i].arg.set, "llmId")
                        /\ Present(calls[p][i].arg.set, "agentId")

\* an update that carries a voice_id and no prompt succeeded on a record
\* that holds an agent
C4_Witness ==
    \E p \in Procs :
        /\ IsDone(p, "update") /\ result[p].status_code = 200
        /\ Present(req[p].fields, "voice_id") /\ ~Present(req[p].fields, "prompt")
        /\ Present(existing[p], "agentId")

\* the lookup of operation p found no record: the identifier is no ObjectId,
\* or find_one answered with nothing
LookupMissed(p) ==
    \E i \in Idx(p) :
        calls[p][i].api = "find_one" /\ Succeeded(calls[p][i]) /\ calls[p][i].out = NoDoc
Unresolved(p) == ObjectId(req[p].sim_id).raised \/ LookupMissed(p)
\* the document the operation's find_one returned
Found(p) ==
    LET i == CHOOSE i \in Idx(p) : calls[p][i].api = "find_one"
    IN  IF \E j \in Idx(p) : calls[p][j].api = "find_one" THEN calls[p][i].out ELSE NoDoc

\* C5: update_simulation or start_audio_simulation_preview with an
\* identifier that resolves to no stored record, whatever string it is, ends
\* with 404 and has issued no provider call.
C5_NotFound ==
    \A p \in Procs :
        pc[p] = "done" /\ req[p].op \in {"update", "preview"} /\ Unresolved(p) =>
            /\ result[p].status_code = 404
            /\ \A i \in Idx(p) : calls[p][i].api \notin ProviderApis

\* C6: a preview whose find_one returned a record without agentId has ended
\* with 400 and issued no provider call; a create-web-call is issued only
\* when the record read carried an agentId, and with that agentId.
C6_PreviewPrecondition ==
    \A p \in Procs : req[p].op = "preview" =>
        /\ Found(p) # NoDoc /\ ~Present(Found(p), "agentId") =>
              /\ pc[p] = "done" /\ result[p].status_code = 400
              /\ \A i \in Idx(p) : calls[p][i].api \notin ProviderApis
        /\ \A i \in Idx(p) :
              /\ calls[p][i].api \in ProviderApis => calls[p][i].api = "create-web-call"
              /\ calls[p][i].api = "create-web-call" =>
                    /\ Present(Found(p), "agentId")
                    /\ calls[p][i].arg.agent_id = Found(p).agentId

\* a preview of a record without an agent was refused
C6_Witness ==
    \E p \in Procs :
        /\ IsDone(p, "preview")
        /\ Found(p) # NoDoc /\ ~Present(Found(p), "agentId")
        /\ result[p].status_code = 400

\* C7: the status of a finished operation follows from the step that failed:
\* a lookup miss gives 404, a preview of a record without agentId 400, every
\* failed provider call (whatever status the provider sent) and every failed
\* store call 500; so 404 and 400 are never the report of a provider failure.
C7_FailureKind ==
    \A p \in Procs : pc[p] = "done" =>
        LET miss == LookupMissed(p)
            noagent == /\ req[p].op = "preview"
                       /\ Found(p) # NoDoc /\ ~Present(Found(p), "agentId")
            provider == \E i \in Idx(p) :
                           calls[p][i].api \in ProviderApis /\ Failed(calls[p][i])
            store == \E i \in Idx(p) :
                        calls[p][i].api \in StoreApis /\ Failed(calls[p][i])
        IN  /\ miss => result[p].status_code = 404
            /\ noagent => result[p].status_code = 400
            /\ provider \/ store => result[p].status_code = 500
            /\ result[p].status_code = 404 => miss
            /\ result[p].status_code = 400 => noagent

\* the provider answered create-web-call with 400 and the preview reports 500
C7_Witness ==
    \E p \in Procs :
        /\ IsDone(p, "preview")
        /\ \E i \in Idx(p) :
              /\ calls[p][i].api = "create-web-call"
              /\ calls[p][i].reply.conn /\ calls[p][i].reply.status = 400
        /\ result[p].status_code = 500

\* the stored names of the fields a request carries
Named(request) ==
    { field_mappings[f] : f \in DOMAIN request \cap DOMAIN field_mappings }
    \cup (DOMAIN request \cap {"script", "lvl1", "lvl2", "lvl3"})
    \cup (IF Present(request, "simulation_scoring_metrics")
          THEN {"simulationScoringMetrics"} ELSE {})
    \cup (IF Present(request, "sim_practice") THEN {"simPractice"} ELSE {})
Audit == {"lastModified", "lastModifiedBy"}
\* update_one of handler p changed no stored field outside `allowed`
OnlyChanged(p, allowed) ==
    \A i \in Idx(p) :
        calls[p][i].api = "update_one" =>
            \A f \in DOMAIN calls[p][i].out.before \cup DOMAIN calls[p][i].out.after :
                f \notin allowed => ~Changed(calls[p][i].out, f)

\* C8 as stated: an update changes no stored field that the request does not
\* name, the audit fields lastModified and lastModifiedBy excepted.
C8_Original ==
    \A p \in Procs : req[p].op = "update" =>
        OnlyChanged(p, Named(req[p].fields) \cup Audit)

\* C8: an update changes no stored field that the request does not name,
\* except the audit fields lastModified and lastModifiedBy and, when the
\* request carries a prompt, llmId and agentId.
C8_Amended ==
    \A p \in Procs : req[p].op = "update" =>
        OnlyChanged(p, Named(req[p].fields) \cup Audit
                       \cup (IF Present(req[p].fields, "prompt")
                             THEN {"llmId", "agentId"} ELSE {}))

\* an update with a prompt and no version succeeded on a record that holds a
\* version, a name and a script
C8_Witness ==
    \E p \in Procs :
        /\ IsDone(p, "update") /\ result[p].status_code = 200
        /\ Present(req[p].fields, "prompt") /\ ~Present(req[p].fields, "version")
        /\ \E i \in Idx(p) :
              /\ calls[p][i].api = "update_one"
              /\ {"version", "name", "script"} \subseteq DOMAIN calls[p][i].out.before
              /\ Changed(calls[p][i].out, "prompt")

\* C9: an update_one that the store answered and that modified nothing (the
\* record gone since the lookup, or nothing to change) ends update_simulation
\* with 500, and a successful update_simulation has modified the record.
C9_ZeroModifiedFails ==
    \A p \in Procs : \A i \in Idx(p) :
        calls[p][i].api = "update_one" /\ Succeeded(calls[p][i]) =>
            /\ pc[p] = "done"
            /\ calls[p][i].out.before = calls[p][i].out.after =>
                  /\ result[p].status_code = 500
                  /\ result[p].detail = "Failed to update simulation"
            /\ result[p].status_code = 200 =>
                  calls[p][i].out.before # calls[p][i].out.after

\* the record found by the lookup was gone at the write, and the update failed
C9_Witness ==
    \E p \in Procs :
        /\ IsDone(p, "update")
        /\ Found(p) # NoDoc
        /\ \E i \in Idx(p) :
              /\ calls[p][i].api = "update_one" /\ Succeeded(calls[p][i])
              /\ calls[p][i].out.before = NoDoc
        /\ result[p].status_code = 500

\* C10: create_simulation calls insert_one (or is about to) only after the
\* text-generation call succeeded; when that call failed the operation has
\* ended with 500 without calling insert_one.
C10_InsertAfterGeneration ==
    \A p \in Procs : req[p].op = "create" =>
        /\ calls[p][1].api = "chat-completions"
        /\ pc[p] = "create:insert" \/ Issued(p, "insert_one") =>
              Succeeded(calls[p][1])
        /\ Failed(calls[p][1]) =>
              /\ pc[p] = "done" /\ result[p].status_code = 500
              /\ \A i \in Idx(p) : calls[p][i].api \notin StoreApis

\* the text-generation provider refused and the creation failed
C10_Witness ==
    \E p \in Procs :
        /\ IsDone(p, "create")
        /\ Failed(calls[p][1]) /\ calls[p][1].reply.status = 404
        /\ result[p].status_code = 500
        /\ nextOid = 2

\* handler p is in an update that carries a prompt
PromptUpdate(p) == req[p].op = "update" /\ Present(req[p].fields, "prompt")
\* the ObjectId the request of handler p names; -1 when it names none
Target(p) ==
    LET sim_id_object == ObjectId(req[p].sim_id)
    IN  IF sim_id_object.raised THEN -1 ELSE sim_id_object.value

\* what holds of a create_simulation's insert in every state
C11_Inserted ==
    \A p \in Procs : \A i \in Idx(p) :
        calls[p][i].api = "insert_one" /\ Succeeded(calls[p][i]) =>
            LET oid == calls[p][i].out[1]
                d == calls[p][i].arg
            IN  /\ pc[p] = "done" /\ result[p].status_code = 200
                /\ sims[oid] = d
                /\ d.status = "draft" /\ d.version = 1
                /\ d.prompt = result[p].body.prompt
                /\ d.prompt = calls[p][1].out["content"]
                /\ ~Present(d, "llmId") /\ ~Present(d, "agentId")
                /\ result[p].body.id = OidStr(oid)

\* a record gains an agentId only in the step in which an update that
\* carries a prompt succeeds on it
C11_BoundOnlyByPromptUpdate ==
    \A oid \in DOMAIN sims' :
        (oid \notin DOMAIN sims \/ ~Present(sims[oid], "agentId"))
        /\ Present(sims'[oid], "agentId")
        => \E p \in Procs :
              /\ PromptUpdate(p) /\ Target(p) = oid
              /\ pc[p] = "update:write" /\ pc'[p] = "done"
              /\ result'[p].status_code = 200

\* C11: the record a successful create_simulation inserts has status
\* "draft", version 1, the generated prompt that the response also carries,
\* and neither llmId nor agentId; a record gains an agentId only by a
\* successful update that carries a prompt, and a preview that reads a record
\* without agentId ends with 400.
C11_CreatedRecord ==
    /\ [](C11_Inserted
          /\ \A p \in Procs :
                IsDone(p, "preview") /\ Found(p) # NoDoc /\ ~Present(Found(p), "agentId")
                    => result[p].status_code = 400)
    /\ [][C11_BoundOnlyByPromptUpdate]_vars

\* a record was created, and its preview was refused
C11_Witness ==
    \E p \in Procs :
        /\ IsDone(p, "preview") /\ Target(p) = 2
        /\ Found(p) # NoDoc /\ Found(p) = sims[2]
        /\ sims[2].status = "draft" /\ sims[2].prompt = "g1"
        /\ result[p].status_code = 400

\* C12: create_simulation inserts version 1; an update_one of an update
\* whose request carries no version leaves the stored version as it was, and
\* one whose request carries a version leaves exactly that value stored.
C12_VersionOnlyAsGiven ==
    \A p \in Procs : \A i \in Idx(p) :
        /\ calls[p][i].api = "insert_one" => calls[p][i].arg.version = 1
        /\ calls[p][i].api = "update_one" /\ calls[p][i].out.before # NoDoc =>
              IF Present(req[p].fields, "version")
              THEN calls[p][i].out.after.version = req[p].fields.version
              ELSE /\ ~Present(calls[p][i].arg.set, "version")
                   /\ calls[p][i].out.after.version = calls[p][i].out.before.version

\* a record whose version an earlier update set to 2 was updated again,
\* without a version, and still holds 2
C12_Witness ==
    \E p \in Procs :
        /\ IsDone(p, "update") /\ result[p].status_code = 200
        /\ ~Present(req[p].fields, "version")
        /\ \E i \in Idx(p) :
              /\ calls[p][i].api = "update_one"
              /\ calls[p][i].out.before # NoDoc
              /\ calls[p][i].out.before.version = 2
        /\ sims[1].version = 2

\* C13: every update_one of update_simulation sets lastModified and
\* lastModifiedBy, the latter to the request's user, whatever else the request
\* carries; it sets neither createdOn nor createdBy and leaves both as
\* stored, so the record holds the values create_simulation gave it.
C13_AuditFields ==
    /\ \A p \in Procs : \A i \in Idx(p) :
          calls[p][i].api = "update_one" =>
             LET set == calls[p][i].arg.set
                 out == calls[p][i].out
             IN  /\ Present(set, "lastModified")
                 /\ Present(set, "lastModifiedBy") /\ set.lastModifiedBy = req[p].user_id
                 /\ ~Present(set, "createdOn") /\ ~Present(set, "createdBy")
                 /\ ~Changed(out, "createdOn") /\ ~Changed(out, "createdBy")
                 /\ out.before # NoDoc =>
                       /\ out.after.lastModifiedBy = req[p].user_id
                       /\ out.after.lastModified = set.lastModified
    /\ 1 \in DOMAIN sims => sims[1].createdBy = "u2" /\ sims[1].createdOn = 0

\* a user who did not create the record updated it, at a later time
C13_Witness ==
    \E p \in Procs :
        /\ IsDone(p, "update") /\ result[p].status_code = 200
        /\ \E i \in Idx(p) :
              /\ calls[p][i].api = "update_one"
              /\ calls[p][i].out.before # NoDoc
              /\ calls[p][i].out.before.createdBy # req[p].user_id
              /\ calls[p][i].out.after.lastModified > calls[p][i].out.before.createdOn
        /\ sims[1].lastModifiedBy = "u1" /\ sims[1].createdBy = "u2"

\* the update_one of a prompt-carrying update sets both bindings
BothStaged(p) ==
    \A i \in Idx(p) :
        calls[p][i].api = "update_one" =>
            /\ Present(calls[p][i].arg.set, "llmId")
            /\ Present(calls[p][i].arg.set, "agentId")

\* C14 as stated: in an update that carries a prompt the create-agent call
\* carries the request's voice_id when the request has one and
\* "11labs-Adrian" when it has none, and update_one sets llmId and agentId.
C14_Original ==
    \A p \in Procs : PromptUpdate(p) =>
        /\ \A i \in Idx(p) :
              calls[p][i].api = "create-agent" =>
                 calls[p][i].arg.voice_id =
                    (IF Present(req[p].fields, "voice_id")
                     THEN req[p].fields.voice_id ELSE "11labs-Adrian")
        /\ BothStaged(p)

\* C14: in an update that carries a prompt the create-agent call carries the
\* request's voice_id when the request has a non-empty one and
\* "11labs-Adrian" when it has none or an empty one, and update_one sets
\* llmId and agentId.
C14_Amended ==
    \A p \in Procs : PromptUpdate(p) =>
        /\ \A i \in Idx(p) :
              calls[p][i].api = "create-agent" =>
                 calls[p][i].arg.voice_id =
                    (IF Present(req[p].fields, "voice_id") /\ req[p].fields.voice_id # ""
                     THEN req[p].fields.voice_id ELSE "11labs-Adrian")
        /\ BothStaged(p)

\* an update with a prompt and the voice "v1" created its agent with "v1"
\* and wrote both bindings
C14_Witness ==
    \E p \in Procs :
        /\ IsDone(p, "update") /\ result[p].status_code = 200
        /\ PromptUpdate(p) /\ Get(req[p].fields, "voice_id") = "v1"
        /\ Present(sims[1], "agentId")
        /\ agents[sims[1].agentId].voice_id = "v1"
        /\ agents[sims[1].agentId].llm_id = sims[1].llmId

\* C15: the user message create_simulation sends to the text-generation
\* provider for a script of n >= 1 lines is, token by token, line i's role,
\* ": " and line i's sentence, for i = 1..n in the script's order, with one
\* newline between two consecutive lines and none before the first or after
\* the last.
C15_Transcript ==
    \A p \in Procs : \A c \in Idx(p) :
        calls[p][c].api = "chat-completions" =>
            LET script == req[p].fields.script
                text == calls[p][c].arg
                n == Len(script)
            IN  /\ n >= 1
                /\ Len(text) = 4 * n - 1
                /\ \A i \in 1..n :
                      /\ text[4 * i - 3] = script[i].role
                      /\ text[4 * i - 2] = ": "
                      /\ text[4 * i - 1] = script[i].script_sentence
                      /\ i < n => text[4 * i] = "\n"

\* a script of three lines that opens with the customer and repeats a line
\* was sent
C15_Witness ==
    \E p \in Procs :
        /\ pc[p] = "create:gen"
        /\ Len(req[p].fields.script) = 3
        /\ req[p].fields.script[1].role = "customer"
        /\ req[p].fields.script[2] = req[p].fields.script[3]
        /\ calls[p][1].arg = <<"customer", ": ", "Refund", "\n", "agent", ": ", "Hello",
                               "\n", "agent", ": ", "Hello">>

\* C16: an update_one that matched leaves, field by field, the value of its
\* own update set where the set names the field and otherwise the value the
\* record held just before (the prior record's, or an earlier writer's), and
\* no other field or value; when the update has succeeded the stored record
\* is exactly that result.  So of two overlapping updates the later write
\* decides the fields it names and the earlier write keeps the rest.
C16_LastWriteWinsPerField ==
    \A p \in Procs : \A i \in Idx(p) :
        calls[p][i].api = "update_one" /\ calls[p][i].out.before # NoDoc =>
            LET set == calls[p][i].arg.set
                before == calls[p][i].out.before
                after == calls[p][i].out.after
            IN  /\ DOMAIN after = DOMAIN before \cup DOMAIN set
                /\ \A f \in DOMAIN set : after[f] = set[f]
                /\ \A f \in DOMAIN before \ DOMAIN set : after[f] = before[f]
                /\ pc[p] = "done" /\ result[p].status_code = 200
                      => Target(p) \in DOMAIN sims /\ sims[Target(p)] = after

\* two updates overlapped: the record this update had looked up was
\* rewritten by another update (version 2) before this one wrote its voice;
\* the record holds the other's version, this one's voice, and this one's
\* lastModifiedBy
C16_Witness ==
    \E p \in Procs :
        /\ IsDone(p, "update") /\ result[p].status_code = 200
        /\ DOMAIN req[p].fields = {"voice_id"}
        /\ existing[p].version = 1
        /\ \E i \in Idx(p) :
              /\ calls[p][i].api = "update_one"
              /\ calls[p][i].out.before # existing[p]
              /\ calls[p][i].out.before.version = 2
        /\ sims[1].version = 2 /\ sims[1].voiceId = "v1"
        /\ sims[1].lastModifiedBy = "u1"

\* C17: within one operation no external call (text generation, create-LLM,
\* create-agent, create-web-call, find_one, insert_one, update_one) is issued
\* twice, and a call that failed is the operation's last call: the operation
\* has ended, and ended in failure.
C17_NoRetry ==
    \A p \in Procs :
        /\ \A i, j \in Idx(p) : calls[p][i].api = calls[p][j].api => i = j
        /\ \A i \in Idx(p) :
              Failed(calls[p][i]) =>
                 /\ i = Len(calls[p])
                 /\ pc[p] = "done"
                 /\ result[p].status_code >= 400

\* an update whose provisioning succeeded lost its store write: it ended
\* with 500 after exactly one call of each kind
C17_Witness ==
    \E p \in Procs :
        /\ IsDone(p, "update") /\ result[p].status_code = 500
        /\ Len(calls[p]) = 4
        /\ calls[p][2].api = "create-retell-llm" /\ Succeeded(calls[p][2])
        /\ calls[p][3].api = "create-agent" /\ Succeeded(calls[p][3])
        /\ calls[p][4].api = "update_one" /\ Failed(calls[p][4])
        /\ ~Present(sims[1], "agentId")

\* the values the service cannot run without: the store's connection string
\* and database name and the two providers' credentials
Required == {"mongo-url", "db-name", "OPENAI_API_KEY", "RETELL_API_KEY"}
Lacking(env) == \E n \in Required : n \notin DOMAIN env \/ env[n] = ""

\* C18: in an environment where a required value is missing or empty the
\* config module, once it has run, has raised, and the process is never
\* serving.
C18_FailFast ==
    Lacking(environ) =>
        /\ config.state # "unloaded" => config.state = "raised"
        /\ config.state # "serving"

\* C19: in every state every stored record that has an agentId has an llmId,
\* the provider's agent of that id was created bound to that llmId, and the
\* provider's LLM of that id was created from the prompt the record holds.
C19_BindingsMatchPrompt ==
    \A oid \in DOMAIN sims :
        Present(sims[oid], "agentId") =>
            /\ Present(sims[oid], "llmId")
            /\ sims[oid].agentId \in DOMAIN agents
            /\ sims[oid].llmId \in DOMAIN llms
            /\ agents[sims[oid].agentId].llm_id = sims[oid].llmId
            /\ llms[sims[oid].llmId].general_prompt = sims[oid].prompt

\* two updates with different prompts interleaved their provisioning (the
\* one that created the first LLM created the second agent) and both wrote
\* the record
C19_Witness ==
    /\ Len(llms) = 2 /\ Len(agents) = 2
    /\ llms[1].general_prompt # llms[2].general_prompt
    /\ agents[2].llm_id = 1
    /\ Present(sims[1], "agentId") /\ sims[1].agentId = 2
    /\ \E p \in Procs :
          /\ IsDone(p, "update") /\ result[p].status_code = 200
          /\ \E i \in Idx(p) :
                /\ calls[p][i].api = "update_one"
                /\ Present(calls[p][i].out.before, "agentId")
                /\ calls[p][i].out.before.agentId = 1

\* C20: in every state a stored record that has both a voiceId (a voice
\* identifier, not the empty string) and an agentId has an agent that the
\* provider created with that voiceId.
C20_VoiceAgrees ==
    \A oid \in DOMAIN sims :
        /\ Present(sims[oid], "voiceId") /\ sims[oid].voiceId # ""
        /\ Present(sims[oid], "agentId")
        =>
            /\ sims[oid].agentId \in DOMAIN agents
            /\ agents[sims[oid].agentId].voice_id = sims[oid].voiceId

====
